---- MODULE Spec2Model ----
(***************************************************************************)
(* Order lifecycle and completion archive of the restaurant orders         *)
(* dashboard (src/src/App.jsx, component RestaurantOrdersDashboard).       *)
(*                                                                         *)
(* The component's React state is the state of the machine; every event    *)
(* handler is one action (React applies the state updates of one handler   *)
(* as one step).  Arrays are sequences, index 1 is the head of the array.  *)
(* An absent value (null) of an optional field is the empty sequence and a *)
(* present one a sequence of length one.                                   *)
(***************************************************************************)
EXTENDS Integers, Sequences, FiniteSets, TLC

VARIABLES
    orders,           \* useState orders: the live order list
    completedOrders,  \* useState completedOrders: the archive, newest first
    query,            \* useState query
    statusFilter,     \* useState statusFilter
    typeFilter,       \* useState typeFilter
    page,             \* useState page
    toast,            \* useState toast: <<>> (null) or <<kind, id>>
    clock,            \* the wall clock read by now() and new Date()
    nextId,           \* the number of ids uid() has handed out
    menu,             \* useState menu
    shopInfo,         \* useState shopInfo
    createModal,      \* CreateOrderModal: <<>> (not shown) or <<its items>>
    storage,          \* localStorage: for each key <<>> (no entry) or <<text>>
    watch,            \* the observers a specification turns on (never changes)
    lastOp,           \* observer "ops": the handler that ran last and what it saw
    seq,              \* observer "seq": progress of TrackedId through C1Sequence
    deliveredOnce     \* observer "once": live ids that have moved into Delivered

vars == <<orders, completedOrders, query, statusFilter, typeFilter, page,
          toast, clock, nextId, menu, shopInfo, createModal, storage,
          watch, lastOp, seq, deliveredOnce>>

viewVars == <<query, statusFilter, typeFilter, page>>

----------------------------------------------------------------------------
(* Bounds of the model *)

\* the clock takes the values 0..MaxClock
MaxClock == 2
\* clock ticks per calendar day of the local time zone
TicksPerDay == 2
\* orders the paging specification creates
MaxCreated == 7
\* orders the delivery specification creates
MaxForms == 2
\* lines the create modal holds at most
MaxLines == 2
\* items the menu holds at most
MaxMenu == 2

(* Program constants *)

statuses == <<"Pending", "Preparing", "Ready", "Delivered", "Canceled">>
perPage == 6

StatusSet == {statuses[i] : i \in DOMAIN statuses}

----------------------------------------------------------------------------
(* Helpers on arrays; Array.prototype.filter is SelectSeq *)

\* Array.prototype.findIndex with (o) => o.id === id; 0 stands for -1
findIndex(s, id) ==
    IF \E i \in DOMAIN s : s[i].id = id
    THEN CHOOSE i \in DOMAIN s : s[i].id = id /\ \A j \in 1..(i - 1) : s[j].id # id
    ELSE 0

\* Array.prototype.some with (o) => o.id === id
someId(s, id) == \E i \in DOMAIN s : s[i].id = id

IdsOf(s) == {s[i].id : i \in DOMAIN s}
CountId(s, id) == Cardinality({i \in DOMAIN s : s[i].id = id})
StatusOf(s, id) == IF someId(s, id) THEN s[findIndex(s, id)].status ELSE "absent"

----------------------------------------------------------------------------
(* Completion archive *)

\* { ...order, completedAt: new Date().toISOString() }
CompletionRecord(order, t) ==
    [f \in DOMAIN order \cup {"completedAt"} |->
        IF f = "completedAt" THEN t ELSE order[f]]

\* a plausible bug: the duplicate check is missing
addCompleted_NoDedup(prev, order, t) == <<CompletionRecord(order, t)>> \o prev

\* a plausible bug: an existing record is refreshed instead of kept
addCompleted_Refresh(prev, order, t) ==
    IF someId(prev, order.id)
    THEN [i \in DOMAIN prev |->
            IF prev[i].id = order.id THEN CompletionRecord(order, t) ELSE prev[i]]
    ELSE <<CompletionRecord(order, t)>> \o prev

\* the updater of addCompleted: prev is the archive, t the clock it reads
addCompleted(prev, order, t) ==
    IF someId(prev, order.id) THEN prev
    ELSE <<CompletionRecord(order, t)>> \o prev

\* the updater of removeCompleted
removeCompleted(prev, id) == SelectSeq(prev, LAMBDA o : o.id # id)

\* format(new Date(timestamp), "yyyy-MM-dd"): the local calendar day of the
\* timestamp.  Days are numbered; the texts of two days compare
\* (localeCompare) as their numbers do, the format being of fixed width.
formatDay(timestamp) == timestamp \div TicksPerDay

\* a plausible bug: the key is cut from the ISO text, the UTC day, which a
\* time zone behind UTC reaches one tick ahead of the local day
getDayKey_UtcDay(timestamp) == (timestamp + 1) \div TicksPerDay

\* getDayKey(timestamp)
getDayKey(timestamp) == formatDay(timestamp)

\* the updater of removeCompletedDay
removeCompletedDay(prev, dayKey) ==
    SelectSeq(prev, LAMBDA o : getDayKey(o.completedAt) # dayKey)

\* Object.keys(map).sort((a, b) => b.localeCompare(a)) on the set of day keys
RECURSIVE sortDaysDescending(_)
sortDaysDescending(days) ==
    IF days = {} THEN <<>>
    ELSE LET d == CHOOSE x \in days : \A y \in days : y <= x
         IN  <<d>> \o sortDaysDescending(days \ {d})

\* a plausible bug: the comparator is a.localeCompare(b)
grouped_OldestFirst(completed) ==
    LET days == sortDaysDescending(
                    {formatDay(completed[i].completedAt) : i \in DOMAIN completed})
    IN  [k \in DOMAIN days |->
            [day   |-> days[Len(days) + 1 - k],
             items |-> SelectSeq(completed, LAMBDA o :
                            formatDay(o.completedAt) = days[Len(days) + 1 - k])]]

\* the useMemo body of CompletedOrdersList.grouped: forEach pushes every
\* record, in archive order, onto the list of its day; the days are sorted
grouped(completed) ==
    LET days == sortDaysDescending(
                    {formatDay(completed[i].completedAt) : i \in DOMAIN completed})
    IN  [k \in DOMAIN days |->
            [day   |-> days[k],
             items |-> SelectSeq(completed, LAMBDA o :
                            formatDay(o.completedAt) = days[k])]]

----------------------------------------------------------------------------
(* Order store *)

\* a plausible bug: every save of a Delivered order archives it
archiveOnReplace_Always(prev, order) == order.status = "Delivered"

\* a plausible bug: the trigger looks at the previous status only
archiveOnInsert_Never(order) == FALSE

\* upsertOrder, new order: if (order.status === "Delivered") addCompleted(order)
archiveOnInsert(order) == order.status = "Delivered"

\* upsertOrder, existing order:
\* if (prev?.status !== order.status && order.status === "Delivered")
archiveOnReplace(prev, order) ==
    prev.status # order.status /\ order.status = "Delivered"

\* { ...o, ...patch }: patch is a record of some of the order's fields
merge(o, patch) ==
    [f \in DOMAIN o \cup DOMAIN patch |->
        IF f \in DOMAIN patch THEN patch[f] ELSE o[f]]

\* onUpdate: before && after && before.status !== after.status
\*           && after.status === "Delivered"
archiveOnPatch(before, after) ==
    before.status # after.status /\ after.status = "Delivered"

\* a plausible bug: a new order is put at the end of the list
upsertOrderUpdater_Append(s, order) ==
    LET idx == findIndex(s, order.id)
    IN  IF idx = 0 THEN Append(s, order) ELSE [s EXCEPT ![idx] = order]

\* a plausible bug: the order is inserted whether or not its id is in the list
upsertOrderUpdater_AlwaysInsert(s, order) == <<order>> \o s

\* the updater of upsertOrder
upsertOrderUpdater(s, order) ==
    LET idx == findIndex(s, order.id)
    IN  IF idx = 0 THEN <<order>> \o s ELSE [s EXCEPT ![idx] = order]

\* the updater of deleteOrder
deleteOrderUpdater(s, id) == SelectSeq(s, LAMBDA o : o.id # id)

\* the updater of onUpdate: prev.map((o) => (o.id === id ? {...o, ...patch} : o))
onUpdateUpdater(prev, id, patch) ==
    [i \in DOMAIN prev |-> IF prev[i].id = id THEN merge(prev[i], patch) ELSE prev[i]]

----------------------------------------------------------------------------
(* Text.  A string is known to the model by its characters. *)

Chars(str) ==
    CASE str = ""     -> <<>>
      [] str = " "    -> <<" ">>
      [] str = "AN"   -> <<"A", "N">>
      [] str = " b"   -> <<" ", "b">>
      [] str = "o1"   -> <<"o", "1">>
      [] str = "o2"   -> <<"o", "2">>
      [] str = "o3"   -> <<"o", "3">>
      [] str = "o4"   -> <<"o", "4">>
      [] str = "o5"   -> <<"o", "5">>
      [] str = "o6"   -> <<"o", "6">>
      [] str = "o7"   -> <<"o", "7">>
      [] str = "o8"   -> <<"o", "8">>
      [] str = "o9"   -> <<"o", "9">>
      [] str = "Ana"  -> <<"A", "n", "a">>
      [] str = "Bo"   -> <<"B", "o">>
      [] str = "Dan B" -> <<"D", "a", "n", " ", "B">>
      [] str = "soup" -> <<"s", "o", "u", "p">>
      [] str = "Soup" -> <<"S", "o", "u", "p">>
      [] str = "chicken tikka " ->
            <<"c", "h", "i", "c", "k", "e", "n", " ", "t", "i", "k", "k", "a", " ">>
      \* the words of the program
      [] str = "id" -> <<"i", "d">>
      [] str = "customer" -> <<"c", "u", "s", "t", "o", "m", "e", "r">>
      [] str = "type" -> <<"t", "y", "p", "e">>
      [] str = "status" -> <<"s", "t", "a", "t", "u", "s">>
      [] str = "assigned" -> <<"a", "s", "s", "i", "g", "n", "e", "d">>
      [] str = "createdAt" -> <<"c", "r", "e", "a", "t", "e", "d", "A", "t">>
      [] str = "items" -> <<"i", "t", "e", "m", "s">>
      [] str = "total" -> <<"t", "o", "t", "a", "l">>
      [] str = "delivery_name" -> <<"d", "e", "l", "i", "v", "e", "r", "y", "_", "n", "a", "m", "e">>
      [] str = "delivery_phone" -> <<"d", "e", "l", "i", "v", "e", "r", "y", "_", "p", "h", "o", "n", "e">>
      [] str = "delivery_address" -> <<"d", "e", "l", "i", "v", "e", "r", "y", "_", "a", "d", "d", "r", "e", "s", "s">>
      [] str = "delivery_note" -> <<"d", "e", "l", "i", "v", "e", "r", "y", "_", "n", "o", "t", "e">>
      [] str = "Dine-in" -> <<"D", "i", "n", "e", "-", "i", "n">>
      [] str = "Takeaway" -> <<"T", "a", "k", "e", "a", "w", "a", "y">>
      [] str = "Delivery" -> <<"D", "e", "l", "i", "v", "e", "r", "y">>
      [] str = "Pending" -> <<"P", "e", "n", "d", "i", "n", "g">>
      [] str = "Preparing" -> <<"P", "r", "e", "p", "a", "r", "i", "n", "g">>
      [] str = "Ready" -> <<"R", "e", "a", "d", "y">>
      [] str = "Delivered" -> <<"D", "e", "l", "i", "v", "e", "r", "e", "d">>
      [] str = "Canceled" -> <<"C", "a", "n", "c", "e", "l", "e", "d">>
      [] str = "Unassigned" -> <<"U", "n", "a", "s", "s", "i", "g", "n", "e", "d">>
      [] str = "T4" -> <<"T", "4">>
      [] str = "Guest" -> <<"G", "u", "e", "s", "t">>
      [] str = "CASH" -> <<"C", "A", "S", "H">>
      [] str = "My Restaurant" -> <<"M", "y", " ", "R", "e", "s", "t", "a", "u", "r", "a", "n", "t">>
      [] str = "&lt;" -> <<"&", "l", "t", ";">>
      \* every text of one to three of the characters x , " and newline
      [] str = "x" -> <<"x">>
      [] str = "," -> <<",">>
      [] str = "\"" -> <<"\"">>
      [] str = "\n" -> <<"\n">>
      [] str = "xx" -> <<"x", "x">>
      [] str = "x," -> <<"x", ",">>
      [] str = "x\"" -> <<"x", "\"">>
      [] str = "x\n" -> <<"x", "\n">>
      [] str = ",x" -> <<",", "x">>
      [] str = ",," -> <<",", ",">>
      [] str = ",\"" -> <<",", "\"">>
      [] str = ",\n" -> <<",", "\n">>
      [] str = "\"x" -> <<"\"", "x">>
      [] str = "\"," -> <<"\"", ",">>
      [] str = "\"\"" -> <<"\"", "\"">>
      [] str = "\"\n" -> <<"\"", "\n">>
      [] str = "\nx" -> <<"\n", "x">>
      [] str = "\n," -> <<"\n", ",">>
      [] str = "\n\"" -> <<"\n", "\"">>
      [] str = "\n\n" -> <<"\n", "\n">>
      [] str = "xxx" -> <<"x", "x", "x">>
      [] str = "xx," -> <<"x", "x", ",">>
      [] str = "xx\"" -> <<"x", "x", "\"">>
      [] str = "xx\n" -> <<"x", "x", "\n">>
      [] str = "x,x" -> <<"x", ",", "x">>
      [] str = "x,," -> <<"x", ",", ",">>
      [] str = "x,\"" -> <<"x", ",", "\"">>
      [] str = "x,\n" -> <<"x", ",", "\n">>
      [] str = "x\"x" -> <<"x", "\"", "x">>
      [] str = "x\"," -> <<"x", "\"", ",">>
      [] str = "x\"\"" -> <<"x", "\"", "\"">>
      [] str = "x\"\n" -> <<"x", "\"", "\n">>
      [] str = "x\nx" -> <<"x", "\n", "x">>
      [] str = "x\n," -> <<"x", "\n", ",">>
      [] str = "x\n\"" -> <<"x", "\n", "\"">>
      [] str = "x\n\n" -> <<"x", "\n", "\n">>
      [] str = ",xx" -> <<",", "x", "x">>
      [] str = ",x," -> <<",", "x", ",">>
      [] str = ",x\"" -> <<",", "x", "\"">>
      [] str = ",x\n" -> <<",", "x", "\n">>
      [] str = ",,x" -> <<",", ",", "x">>
      [] str = ",,," -> <<",", ",", ",">>
      [] str = ",,\"" -> <<",", ",", "\"">>
      [] str = ",,\n" -> <<",", ",", "\n">>
      [] str = ",\"x" -> <<",", "\"", "x">>
      [] str = ",\"," -> <<",", "\"", ",">>
      [] str = ",\"\"" -> <<",", "\"", "\"">>
      [] str = ",\"\n" -> <<",", "\"", "\n">>
      [] str = ",\nx" -> <<",", "\n", "x">>
      [] str = ",\n," -> <<",", "\n", ",">>
      [] str = ",\n\"" -> <<",", "\n", "\"">>
      [] str = ",\n\n" -> <<",", "\n", "\n">>
      [] str = "\"xx" -> <<"\"", "x", "x">>
      [] str = "\"x," -> <<"\"", "x", ",">>
      [] str = "\"x\"" -> <<"\"", "x", "\"">>
      [] str = "\"x\n" -> <<"\"", "x", "\n">>
      [] str = "\",x" -> <<"\"", ",", "x">>
      [] str = "\",," -> <<"\"", ",", ",">>
      [] str = "\",\"" -> <<"\"", ",", "\"">>
      [] str = "\",\n" -> <<"\"", ",", "\n">>
      [] str = "\"\"x" -> <<"\"", "\"", "x">>
      [] str = "\"\"," -> <<"\"", "\"", ",">>
      [] str = "\"\"\"" -> <<"\"", "\"", "\"">>
      [] str = "\"\"\n" -> <<"\"", "\"", "\n">>
      [] str = "\"\nx" -> <<"\"", "\n", "x">>
      [] str = "\"\n," -> <<"\"", "\n", ",">>
      [] str = "\"\n\"" -> <<"\"", "\n", "\"">>
      [] str = "\"\n\n" -> <<"\"", "\n", "\n">>
      [] str = "\nxx" -> <<"\n", "x", "x">>
      [] str = "\nx," -> <<"\n", "x", ",">>
      [] str = "\nx\"" -> <<"\n", "x", "\"">>
      [] str = "\nx\n" -> <<"\n", "x", "\n">>
      [] str = "\n,x" -> <<"\n", ",", "x">>
      [] str = "\n,," -> <<"\n", ",", ",">>
      [] str = "\n,\"" -> <<"\n", ",", "\"">>
      [] str = "\n,\n" -> <<"\n", ",", "\n">>
      [] str = "\n\"x" -> <<"\n", "\"", "x">>
      [] str = "\n\"," -> <<"\n", "\"", ",">>
      [] str = "\n\"\"" -> <<"\n", "\"", "\"">>
      [] str = "\n\"\n" -> <<"\n", "\"", "\n">>
      [] str = "\n\nx" -> <<"\n", "\n", "x">>
      [] str = "\n\n," -> <<"\n", "\n", ",">>
      [] str = "\n\n\"" -> <<"\n", "\n", "\"">>
      [] str = "\n\n\n" -> <<"\n", "\n", "\n">>
      \* every text of one or two of the characters x & < > " and '
      [] str = "&" -> <<"&">>
      [] str = "<" -> <<"<">>
      [] str = ">" -> <<">">>
      [] str = "'" -> <<"'">>
      [] str = "x&" -> <<"x", "&">>
      [] str = "x<" -> <<"x", "<">>
      [] str = "x>" -> <<"x", ">">>
      [] str = "x'" -> <<"x", "'">>
      [] str = "&x" -> <<"&", "x">>
      [] str = "&&" -> <<"&", "&">>
      [] str = "&<" -> <<"&", "<">>
      [] str = "&>" -> <<"&", ">">>
      [] str = "&\"" -> <<"&", "\"">>
      [] str = "&'" -> <<"&", "'">>
      [] str = "<x" -> <<"<", "x">>
      [] str = "<&" -> <<"<", "&">>
      [] str = "<<" -> <<"<", "<">>
      [] str = "<>" -> <<"<", ">">>
      [] str = "<\"" -> <<"<", "\"">>
      [] str = "<'" -> <<"<", "'">>
      [] str = ">x" -> <<">", "x">>
      [] str = ">&" -> <<">", "&">>
      [] str = "><" -> <<">", "<">>
      [] str = ">>" -> <<">", ">">>
      [] str = ">\"" -> <<">", "\"">>
      [] str = ">'" -> <<">", "'">>
      [] str = "\"&" -> <<"\"", "&">>
      [] str = "\"<" -> <<"\"", "<">>
      [] str = "\">" -> <<"\"", ">">>
      [] str = "\"'" -> <<"\"", "'">>
      [] str = "'x" -> <<"'", "x">>
      [] str = "'&" -> <<"'", "&">>
      [] str = "'<" -> <<"'", "<">>
      [] str = "'>" -> <<"'", ">">>
      [] str = "'\"" -> <<"'", "\"">>
      [] str = "''" -> <<"'", "'">>

\* String.prototype.toLowerCase, one character
lowerChar(c) ==
    CASE c = "A" -> "a" [] c = "B" -> "b" [] c = "D" -> "d"
      [] c = "N" -> "n" [] c = "S" -> "s" [] OTHER -> c

\* String.prototype.toLowerCase
toLowerCase(cs) == [i \in DOMAIN cs |-> lowerChar(cs[i])]

\* String.prototype.trim
RECURSIVE trim(_)
trim(cs) ==
    IF cs = <<>> THEN <<>>
    ELSE IF Head(cs) = " " THEN trim(Tail(cs))
    ELSE IF cs[Len(cs)] = " " THEN trim(SubSeq(cs, 1, Len(cs) - 1))
    ELSE cs

\* String.prototype.includes
includes(cs, q) ==
    \E i \in 0..(Len(cs) - Len(q)) : SubSeq(cs, i + 1, i + Len(q)) = q

----------------------------------------------------------------------------
(* Filters, search and paging *)

\* the statusFilter test of filtered
statusPasses(o, sf) == IF sf = "All" THEN TRUE ELSE o.status = sf

\* the typeFilter test of filtered
typePasses(o, tf) == IF tf = "All" THEN TRUE ELSE o.type = tf

\* the query test of filtered; q is query.trim().toLowerCase()
queryPasses(o, q) ==
    IF q = <<>> THEN TRUE
    ELSE \/ includes(toLowerCase(Chars(o.id)), q)
         \/ includes(toLowerCase(Chars(o.customer)), q)
         \/ \E i \in DOMAIN o.items : includes(toLowerCase(Chars(o.items[i].name)), q)

\* one step of a stable sort, newest first: x goes in front of the first
\* element that is not newer than x
RECURSIVE insertNewestFirst(_, _)
insertNewestFirst(x, sorted) ==
    IF sorted = <<>> THEN <<x>>
    ELSE IF Head(sorted).createdAt > x.createdAt
    THEN <<Head(sorted)>> \o insertNewestFirst(x, Tail(sorted))
    ELSE <<x>> \o sorted

\* a plausible bug: the comparator is a - b
RECURSIVE sortByCreatedAt_Ascending(_)
sortByCreatedAt_Ascending(arr) ==
    IF arr = <<>> THEN <<>>
    ELSE LET rest == sortByCreatedAt_Ascending(Tail(arr))
             older == SelectSeq(rest, LAMBDA o : o.createdAt < Head(arr).createdAt)
             other == SelectSeq(rest, LAMBDA o : o.createdAt >= Head(arr).createdAt)
         IN  older \o <<Head(arr)>> \o other

\* arr.sort((a, b) => new Date(b.createdAt) - new Date(a.createdAt)):
\* Array.prototype.sort is stable
RECURSIVE sortByCreatedAt(_)
sortByCreatedAt(arr) ==
    IF arr = <<>> THEN <<>>
    ELSE insertNewestFirst(Head(arr), sortByCreatedAt(Tail(arr)))

\* a plausible bug: sort() is called on orders itself, which it sorts in place
filteredRun_SortsOrders(os, qy, sf, tf) ==
    LET q  == toLowerCase(trim(Chars(qy)))
        so == sortByCreatedAt(os)
        f1 == SelectSeq(so, LAMBDA o : statusPasses(o, sf))
        f2 == SelectSeq(f1, LAMBDA o : typePasses(o, tf))
        f3 == SelectSeq(f2, LAMBDA o : queryPasses(o, q))
    IN  [filtered |-> f3, orders |-> so]

\* a plausible bug: the three tests are alternatives
filteredRun_AnyTest(os, qy, sf, tf) ==
    LET q  == toLowerCase(trim(Chars(qy)))
        f  == SelectSeq(os, LAMBDA o :
                statusPasses(o, sf) \/ typePasses(o, tf) \/ queryPasses(o, q))
    IN  [filtered |-> sortByCreatedAt(f), orders |-> os]

\* the useMemo body of filtered, run on the array os: what it returns and what
\* it leaves in os (filter() makes a new array, sort() sorts that one in place)
filteredRun(os, qy, sf, tf) ==
    LET q  == toLowerCase(trim(Chars(qy)))
        f1 == SelectSeq(os, LAMBDA o : statusPasses(o, sf))
        f2 == SelectSeq(f1, LAMBDA o : typePasses(o, tf))
        f3 == SelectSeq(f2, LAMBDA o : queryPasses(o, q))
    IN  [filtered |-> sortByCreatedAt(f3), orders |-> os]

filtered == filteredRun(orders, query, statusFilter, typeFilter).filtered

\* Math.max(1, Math.ceil(filtered.length / perPage))
totalPages ==
    LET n    == Len(filtered)
        ceil == (n + perPage - 1) \div perPage
    IN  IF ceil > 1 THEN ceil ELSE 1

\* filtered.slice((page - 1) * perPage, page * perPage)
pageItems ==
    LET from == (page - 1) * perPage + 1
        to   == IF page * perPage < Len(filtered) THEN page * perPage ELSE Len(filtered)
    IN  SubSeq(filtered, from, to)

----------------------------------------------------------------------------
(* Export: the CSV file and the receipt document.  Numbers of the model are *)
(* whole, so toFixed(2) writes the digits of the number and ".00".          *)

DQ == "\""
NL == "\n"

\* String(n) of a whole number n >= 0
RECURSIVE Digits(_)
Digits(n) ==
    LET d == <<"0", "1", "2", "3", "4", "5", "6", "7", "8", "9">>[(n % 10) + 1]
    IN  IF n < 10 THEN <<d>> ELSE Digits(n \div 10) \o <<d>>

\* n.toFixed(2) of a whole number n >= 0
toFixed2(n) == Digits(n) \o <<".", "0", "0">>

\* Array.prototype.join on texts
RECURSIVE join(_, _)
join(parts, sep) ==
    IF parts = <<>> THEN <<>>
    ELSE IF Len(parts) = 1 THEN parts[1]
    ELSE parts[1] \o sep \o join(Tail(parts), sep)

\* String.prototype.replace with a global pattern of one character
RECURSIVE replaceAll(_, _, _)
replaceAll(cs, c, by) ==
    IF cs = <<>> THEN <<>>
    ELSE (IF Head(cs) = c THEN by ELSE <<Head(cs)>>) \o replaceAll(Tail(cs), c, by)

\* escapeHtml(unsafe), unsafe being a text; the empty text gives ""
escapeHtml(unsafe) ==
    LET r1 == replaceAll(unsafe, "&", <<"&", "a", "m", "p", ";">>)
        r2 == replaceAll(r1, "<", <<"&", "l", "t", ";">>)
        r3 == replaceAll(r2, ">", <<"&", "g", "t", ";">>)
        r4 == replaceAll(r3, DQ, <<"&", "q", "u", "o", "t", ";">>)
    IN  replaceAll(r4, "'", <<"&", "#", "0", "3", "9", ";">>)

\* const headers of downloadCSV
headers ==
    <<"id", "customer", "type", "status", "assigned", "createdAt", "items",
      "total", "delivery_name", "delivery_phone", "delivery_address",
      "delivery_note">>

\* o.items.map((it) => `${it.name} x${it.qty}`).join("; ")
itemsStr(items) ==
    join([i \in DOMAIN items |->
            Chars(items[i].name) \o <<" ", "x">> \o Digits(items[i].qty)],
         <<";", " ">>)

\* a plausible bug: the sum forgets the quantities
RECURSIVE reduceTotal_IgnoresQty(_)
reduceTotal_IgnoresQty(items) ==
    IF items = <<>> THEN 0
    ELSE reduceTotal_IgnoresQty(SubSeq(items, 1, Len(items) - 1))
            + items[Len(items)].price

\* items.reduce((s, it) => s + it.qty * it.price, 0)
RECURSIVE reduceTotal(_)
reduceTotal(items) ==
    IF items = <<>> THEN 0
    ELSE reduceTotal(SubSeq(items, 1, Len(items) - 1))
            + items[Len(items)].qty * items[Len(items)].price

\* o.delivery?.field || ""
deliveryField(o, field) == IF o.delivery = <<>> THEN "" ELSE o.delivery[1][field]

\* the row downloadCSV makes of the order o: the twelve cells as texts
csvRow(o) ==
    <<Chars(o.id), Chars(o.customer), Chars(o.type), Chars(o.status),
      Chars(o.assigned), Digits(o.createdAt), itemsStr(o.items),
      toFixed2(reduceTotal(o.items)),
      Chars(deliveryField(o, "name")), Chars(deliveryField(o, "phone")),
      Chars(deliveryField(o, "address")), Chars(deliveryField(o, "note"))>>

\* a plausible bug: the quotes of the cell are not doubled
quoteCell_NoDoubling(c) == <<DQ>> \o c \o <<DQ>>

\* `"${String(c).replace(/"/g, '""')}"`
quoteCell(c) == <<DQ>> \o replaceAll(c, DQ, <<DQ, DQ>>) \o <<DQ>>

\* a plausible bug: the rows are made of the archive as well
downloadCSVRun_WithArchive(os) ==
    LET all  == os \o completedOrders
        rows == [i \in DOMAIN all |-> csvRow(all[i])]
        text == [i \in DOMAIN rows |->
                    join([j \in DOMAIN rows[i] |-> quoteCell(rows[i][j])], <<",">>)]
    IN  [csv |-> join(<<join([j \in DOMAIN headers |-> Chars(headers[j])], <<",">>)>>
                        \o text, <<NL>>),
         orders |-> os]

\* downloadCSV run on the order list os: the text of the file and what it
\* leaves in os (map makes new arrays)
downloadCSVRun(os) ==
    LET rows == [i \in DOMAIN os |-> csvRow(os[i])]
        text == [i \in DOMAIN rows |->
                    join([j \in DOMAIN rows[i] |-> quoteCell(rows[i][j])], <<",">>)]
    IN  [csv |-> join(<<join([j \in DOMAIN headers |-> Chars(headers[j])], <<",">>)>>
                        \o text, <<NL>>),
         orders |-> os]

\* a || b on texts: a unless it is empty
orElse(a, b) == IF a # "" THEN a ELSE b

\* one row of the receipt table: what is written into its four cells
receiptLine(it) ==
    [name |-> escapeHtml(Chars(it.name)), qty |-> Digits(it.qty),
     price |-> Digits(it.price), lineTotal |-> Digits(it.qty * it.price)]

\* the html of printOrder(order) with the shop profile shop: the text written
\* at each place of the template that takes a value; <<>> is a place left
\* out, and "*" stands for the bullet between customer and phone
receipt(order, shop) ==
    [logo        |-> IF shop.logo # <<>> /\ shop.logo[1] # ""
                     THEN <<Chars(shop.logo[1])>> ELSE <<>>,
     shopAddress |-> escapeHtml(Chars(shop.address)),
     shopPhone   |-> escapeHtml(Chars(shop.phone)),
     date        |-> escapeHtml(Digits(order.createdAt)),
     id          |-> escapeHtml(Chars(order.id)),
     type        |-> escapeHtml(Chars(order.type)),
     paymentType |-> escapeHtml(Chars("CASH")),
     address     |-> IF order.type = "Delivery" /\ deliveryField(order, "address") # ""
                     THEN <<escapeHtml(Chars(order.delivery[1].address))>>
                     ELSE <<>>,
     customer    |-> IF order.delivery # <<>>
                     THEN escapeHtml(Chars(orElse(order.delivery[1].name, order.customer)))
                            \o <<" ">>
                            \o (IF order.delivery[1].phone # ""
                                THEN <<" ", "*", " ">>
                                        \o escapeHtml(Chars(order.delivery[1].phone))
                                ELSE <<>>)
                     ELSE escapeHtml(Chars(order.customer)),
     cashier     |-> escapeHtml(Chars(shop.name)),
     lines       |-> [i \in DOMAIN order.items |-> receiptLine(order.items[i])],
     subtotal    |-> toFixed2(reduceTotal(order.items)),
     grandTotal  |-> toFixed2(reduceTotal(order.items))]

\* dayTotal of a group: items.reduce((s, o) => s + (total of o.items), 0)
RECURSIVE dayTotal(_)
dayTotal(items) ==
    IF items = <<>> THEN 0
    ELSE dayTotal(SubSeq(items, 1, Len(items) - 1))
            + reduceTotal(items[Len(items)].items)

----------------------------------------------------------------------------
(* Persistence.  A text kept in localStorage is known to the model by what  *)
(* JSON.parse makes of it: kind "json" is the text JSON.stringify wrote for *)
(* the value val[1], kind "corrupt" a text JSON.parse throws on, kind       *)
(* "empty" the empty string.                                                *)

\* const defaultMenu
defaultMenu == <<[id |-> "m1", name |-> "chicken tikka ", price |-> 250]>>

\* the fallback of the shopInfo initialiser; logo is <<>> while there is none
defaultShopInfo ==
    [name |-> "My Restaurant", address |-> "", phone |-> "", taxNumber |-> "",
     logo |-> <<>>]

\* JSON.stringify(value)
JSONstringify(value) == [kind |-> "json", val |-> <<value>>]

\* JSON.parse(text): whether it threw, and <<value>> when it did not
JSONparse(text) ==
    IF text.kind = "json" THEN [threw |-> FALSE, value |-> text.val]
    ELSE [threw |-> TRUE, value |-> <<>>]

\* a plausible bug: the initialiser never returns what it parsed
initialiser_IgnoresStored(raw, fallback) == fallback

\* a useState initialiser, raw being localStorage.getItem(key):
\* try { return raw ? JSON.parse(raw) : fallback } catch (e) { return fallback }
initialiser(raw, fallback) ==
    IF raw = <<>> \/ raw[1].kind = "empty" THEN fallback
    ELSE IF JSONparse(raw[1]).threw THEN fallback
    ELSE JSONparse(raw[1]).value[1]

\* what the four persistence effects write for the state (o, c, m, sh)
Stored(o, c, m, sh) ==
    [orders |-> <<JSONstringify(o)>>, completed |-> <<JSONstringify(c)>>,
     menu |-> <<JSONstringify(m)>>, shop |-> <<JSONstringify(sh)>>]

\* a plausible bug: the archive effect writes under the key of the orders
useEffects_SharedKey ==
    storage' =
        [orders    |-> IF completedOrders' # completedOrders
                       THEN <<JSONstringify(completedOrders')>>
                       ELSE IF orders' # orders
                       THEN <<JSONstringify(orders')>> ELSE storage.orders,
         completed |-> storage.completed,
         menu      |-> IF menu' # menu
                       THEN <<JSONstringify(menu')>> ELSE storage.menu,
         shop      |-> IF shopInfo' # shopInfo
                       THEN <<JSONstringify(shopInfo')>> ELSE storage.shop]

\* the four useEffect(() => localStorage.setItem(key, JSON.stringify(x)), [x])
\* after a handler: each runs when its own dependency was set
useEffects ==
    storage' =
        [orders    |-> IF orders' # orders
                       THEN <<JSONstringify(orders')>> ELSE storage.orders,
         completed |-> IF completedOrders' # completedOrders
                       THEN <<JSONstringify(completedOrders')>> ELSE storage.completed,
         menu      |-> IF menu' # menu
                       THEN <<JSONstringify(menu')>> ELSE storage.menu,
         shop      |-> IF shopInfo' # shopInfo
                       THEN <<JSONstringify(shopInfo')>> ELSE storage.shop]

----------------------------------------------------------------------------
(* Observers.  They record what a step saw and did; no handler reads them. *)
(* A specification turns on the observers its properties use.  lastOp      *)
(* holds the step taken last: its name, the id it was given, that id's     *)
(* live status and whether it had an archive record before the step,       *)
(* whether the step called addCompleted, and the page before the step.     *)

TrackedId == "o1"
C1Sequence == <<"Pending", "Preparing", "Delivered", "Pending", "Delivered">>

NoOp == [op |-> "none", id |-> "-", prev |-> "-", called |-> FALSE,
         had |-> FALSE, pageWas |-> 1]
SeqOff == [n |-> 0, at |-> -1]
SeqStart == [n |-> 1, at |-> -1]

\* the progress of TrackedId through C1Sequence after a step from
\* (orders, completedOrders) to (o2, c2) taken at clock t
NextSeq(o2, c2, t) ==
    LET before == StatusOf(orders, TrackedId)
        after  == StatusOf(o2, TrackedId)
    IN  IF someId(completedOrders, TrackedId) /\ ~someId(c2, TrackedId)
        THEN IF after = "Pending" THEN SeqStart ELSE SeqOff
        ELSE IF after = before THEN seq
        ELSE IF seq.n \in 1..4 /\ after = C1Sequence[seq.n + 1]
        THEN [n |-> seq.n + 1, at |-> IF seq.n + 1 = 3 THEN t ELSE seq.at]
        ELSE IF after = "Pending" /\ ~someId(c2, TrackedId) THEN SeqStart
        ELSE SeqOff

\* the live ids whose status has moved into Delivered since they were inserted
NextDeliveredOnce(o2) ==
    {id \in IdsOf(o2) :
        \/ id \in deliveredOnce
        \/ StatusOf(orders, id) # "Delivered" /\ StatusOf(o2, id) = "Delivered"}

Observe(op, id, called) ==
    /\ watch' = watch
    /\ lastOp' = IF "ops" \in watch
                 THEN [op |-> op, id |-> id, prev |-> StatusOf(orders, id),
                       called |-> called, had |-> someId(completedOrders, id),
                       pageWas |-> page]
                 ELSE IF "page" \in watch
                 THEN [NoOp EXCEPT !.op = op, !.pageWas = page]
                 ELSE lastOp
    /\ seq' = IF "seq" \in watch
              THEN NextSeq(orders', completedOrders', clock)
              ELSE seq
    /\ deliveredOnce' = IF "once" \in watch
                        THEN NextDeliveredOnce(orders')
                        ELSE deliveredOnce

----------------------------------------------------------------------------
(* Orders *)

\* order lines: { ...menuItem, qty }
Line1 == [id |-> "m1", name |-> "chicken tikka ", price |-> 250, qty |-> 1]
Line2 == [id |-> "m2", name |-> "Soup", price |-> 5, qty |-> 2]

\* the fields of an order
Order(id, customer, type, items, status, assigned, t, delivery) ==
    [id |-> id, customer |-> customer, type |-> type, items |-> items,
     status |-> status, assigned |-> assigned, createdAt |-> t,
     delivery |-> delivery]

\* the ids uid() hands out, in the order it hands them out
OrderIds == <<"o1", "o2", "o3", "o4", "o5", "o6", "o7", "o8", "o9">>

\* useState delivery of CreateOrderModal
BlankDelivery == [name |-> "", phone |-> "", address |-> "", note |-> ""]

----------------------------------------------------------------------------
(* Handlers *)

\* notify(message): setToast(message)
notify(kind, id) == toast' = <<kind, id>>

\* the timer of notify: setTimeout(() => setToast(null), ms)
ToastTimeout ==
    /\ toast # <<>>
    /\ toast' = <<>>
    /\ UNCHANGED <<nextId, orders, completedOrders, viewVars, clock>>
    /\ UNCHANGED <<menu, shopInfo, createModal>>
    /\ useEffects
    /\ Observe("toastTimeout", "-", FALSE)

\* upsertOrder(order); the caller says what becomes of nextId and of the
\* create modal
upsertOrder(order) ==
    LET idx == findIndex(orders, order.id)
        called == IF idx = 0 THEN archiveOnInsert(order)
                  ELSE archiveOnReplace(orders[idx], order)
    IN  /\ orders' = upsertOrderUpdater(orders, order)
        /\ completedOrders' = IF called
                              THEN addCompleted(completedOrders, order, clock)
                              ELSE completedOrders
        /\ notify("saved", order.id)
        /\ UNCHANGED <<viewVars, clock>>
        /\ UNCHANGED <<menu, shopInfo>>
        /\ useEffects
        /\ Observe("upsertOrder", order.id, called)

\* onSave of OrderModal, or any other direct call of upsertOrder
SaveOrder(order) == upsertOrder(order) /\ UNCHANGED <<nextId, createModal>>

\* a plausible bug: deleting a live order also drops its archive record
deleteOrder_Cascade(id) ==
    /\ orders' = deleteOrderUpdater(orders, id)
    /\ completedOrders' = removeCompleted(completedOrders, id)
    /\ notify("deleted", id)
    /\ UNCHANGED <<nextId, viewVars, clock>>
    /\ UNCHANGED <<menu, shopInfo, createModal>>
    /\ useEffects
    /\ Observe("deleteOrder", id, FALSE)

\* a plausible bug: the delivery form is kept whatever the type
submit_KeepsDelivery(customer, type, items, delivery) ==
    /\ nextId < MaxCreated
    /\ nextId' = nextId + 1
    /\ createModal' = <<>>
    /\ upsertOrder(Order(OrderIds[nextId + 1],
                         IF customer # "" THEN customer
                         ELSE IF type = "Delivery" /\ delivery.name # ""
                              THEN delivery.name ELSE "Guest",
                         type, items, "Pending", "Unassigned", clock,
                         <<delivery>>))

\* the order CreateOrderModal.submit builds when uid() returns id and now() t
newOrder(id, customer, type, items, delivery, t) ==
    Order(id,
          IF customer # "" THEN customer
          ELSE IF type = "Delivery" /\ delivery.name # ""
               THEN delivery.name ELSE "Guest",
          type, items, "Pending", "Unassigned", t,
          IF type = "Delivery" THEN <<delivery>> ELSE <<>>)

\* CreateOrderModal.submit with the form holding customer, type, items and
\* delivery, uid() returning id, then onCreate:
\* (upsertOrder(o), setShowCreate(false))
submitWithUid(id, customer, type, items, delivery) ==
    /\ nextId < MaxCreated
    /\ nextId' = nextId + 1
    /\ createModal' = <<>>
    /\ upsertOrder(newOrder(id, customer, type, items, delivery, clock))

\* the same when uid() returns an id it has not returned before
submit(customer, type, items, delivery) ==
    submitWithUid(OrderIds[nextId + 1], customer, type, items, delivery)

\* the draft of OrderModal after the user set status and assigned and, in the
\* delivery inputs shown for a Delivery order only, typed the recipient name
\* (<<>>: the inputs were left alone):
\* setDraft((d) => ({ ...d, delivery: { ...(d.delivery || {}), name } }))
editDraft(order, e) ==
    LET d1 == [order EXCEPT !.status = e.status, !.assigned = e.assigned]
    IN  IF d1.type = "Delivery" /\ e.name # <<>>
        THEN [d1 EXCEPT !.delivery =
                IF d1.delivery = <<>> THEN <<[name |-> e.name[1]]>>
                ELSE <<[d1.delivery[1] EXCEPT !.name = e.name[1]]>>]
        ELSE d1

\* OrderModal opened on the live order, edited, Save: onSave({ ...draft })
OrderModalSave(order, e) == SaveOrder(editDraft(order, e))

\* deleteOrder(id)
deleteOrder(id) ==
    /\ orders' = deleteOrderUpdater(orders, id)
    /\ notify("deleted", id)
    /\ UNCHANGED <<nextId, completedOrders, viewVars, clock>>
    /\ UNCHANGED <<menu, shopInfo, createModal>>
    /\ useEffects
    /\ Observe("deleteOrder", id, FALSE)

\* the onUpdate handler given to OrdersTable
onUpdate(id, patch) ==
    LET next   == onUpdateUpdater(orders, id, patch)
        found  == someId(orders, id) /\ someId(next, id)
        called == found /\ archiveOnPatch(orders[findIndex(orders, id)],
                                          next[findIndex(next, id)])
    IN  /\ orders' = next
        /\ completedOrders' = IF called
                              THEN addCompleted(completedOrders,
                                                next[findIndex(next, id)], clock)
                              ELSE completedOrders
        /\ UNCHANGED <<nextId, viewVars, toast, clock>>
        /\ UNCHANGED <<menu, shopInfo, createModal>>
        /\ useEffects
        /\ Observe("onUpdate", id, called)

\* onDelete of CompletedOrdersList: removeCompleted(id)
RemoveCompleted(id) ==
    /\ completedOrders' = removeCompleted(completedOrders, id)
    /\ UNCHANGED <<nextId, orders, viewVars, toast, clock>>
    /\ UNCHANGED <<menu, shopInfo, createModal>>
    /\ useEffects
    /\ Observe("removeCompleted", id, FALSE)

\* a plausible bug: the early return on a declined confirmation is missing
clearCompleted_NoConfirm(confirmed) ==
    /\ completedOrders' = <<>>
    /\ UNCHANGED <<nextId, orders, viewVars, toast, clock>>
    /\ UNCHANGED <<menu, shopInfo, createModal>>
    /\ useEffects
    /\ Observe(IF confirmed THEN "clearCompleted" ELSE "clearDeclined",
               "-", FALSE)

\* clearCompleted(); confirmed is the answer of window.confirm
clearCompleted(confirmed) ==
    /\ completedOrders' = IF confirmed THEN <<>> ELSE completedOrders
    /\ UNCHANGED <<nextId, orders, viewVars, toast, clock>>
    /\ UNCHANGED <<menu, shopInfo, createModal>>
    /\ useEffects
    /\ Observe(IF confirmed THEN "clearCompleted" ELSE "clearDeclined",
               "-", FALSE)

\* the days CompletedOrdersList shows a group, and a Delete day button, for
GroupDays == {grouped(completedOrders)[k].day : k \in DOMAIN grouped(completedOrders)}

\* the Delete day button: window.confirm, then onDeleteDay(day)
DeleteDay(day, confirmed) ==
    /\ completedOrders' = IF confirmed
                          THEN removeCompletedDay(completedOrders, day)
                          ELSE completedOrders
    /\ UNCHANGED <<nextId, orders, viewVars, toast, clock>>
    /\ UNCHANGED <<menu, shopInfo, createModal>>
    /\ useEffects
    /\ Observe(IF confirmed THEN "removeCompletedDay" ELSE "removeDayDeclined",
               "-", FALSE)

\* the first run of the four persistence effects, after the first render
Mount ==
    /\ storage # Stored(orders, completedOrders, menu, shopInfo)
    /\ storage' = Stored(orders, completedOrders, menu, shopInfo)
    /\ UNCHANGED <<orders, completedOrders, viewVars, toast, clock, nextId,
                   menu, shopInfo, createModal, watch, lastOp, seq,
                   deliveredOnce>>

\* onSave of ShopModal: setShopInfo(s)
ShopModalSave(s) ==
    /\ shopInfo' = s
    /\ UNCHANGED <<orders, completedOrders, viewVars, toast, clock, nextId, menu,
                   createModal>>
    /\ useEffects
    /\ Observe("setShopInfo", "-", FALSE)

\* downloadCSV(): the file it hands to the browser is downloadCSVRun(orders).csv
downloadCSV ==
    /\ orders' = downloadCSVRun(orders).orders
    /\ notify("csv", "-")
    /\ UNCHANGED <<completedOrders, viewVars, clock, nextId>>
    /\ UNCHANGED <<menu, shopInfo, createModal>>
    /\ useEffects
    /\ Observe("downloadCSV", "-", FALSE)

\* printOrder(order): the document it writes is receipt(order, shopInfo);
\* opened tells whether window.open gave a window
printOrder(order, opened) ==
    /\ toast' = IF opened THEN toast ELSE <<"popups", "-">>
    /\ UNCHANGED <<orders, completedOrders, viewVars, clock, nextId>>
    /\ UNCHANGED <<menu, shopInfo, createModal>>
    /\ useEffects
    /\ Observe("printOrder", order.id, FALSE)

\* a plausible bug: the handler forgets setPage(1)
setStatusFilter_KeepsPage(v) ==
    /\ statusFilter' = v
    /\ UNCHANGED <<page, query, typeFilter, orders, completedOrders, toast, clock, nextId>>
    /\ UNCHANGED <<menu, shopInfo, createModal>>
    /\ useEffects
    /\ Observe("setStatusFilter", "-", FALSE)

\* the search box: (setQuery(v), setPage(1))
setQuery(v) ==
    /\ query' = v
    /\ page' = 1
    /\ UNCHANGED <<statusFilter, typeFilter, orders, completedOrders, toast, clock, nextId>>
    /\ UNCHANGED <<menu, shopInfo, createModal>>
    /\ useEffects
    /\ Observe("setQuery", "-", FALSE)

\* the status select: (setStatusFilter(e.target.value), setPage(1))
setStatusFilter(v) ==
    /\ statusFilter' = v
    /\ page' = 1
    /\ UNCHANGED <<query, typeFilter, orders, completedOrders, toast, clock, nextId>>
    /\ UNCHANGED <<menu, shopInfo, createModal>>
    /\ useEffects
    /\ Observe("setStatusFilter", "-", FALSE)

\* the type select: (setTypeFilter(e.target.value), setPage(1))
setTypeFilter(v) ==
    /\ typeFilter' = v
    /\ page' = 1
    /\ UNCHANGED <<query, statusFilter, orders, completedOrders, toast, clock, nextId>>
    /\ UNCHANGED <<menu, shopInfo, createModal>>
    /\ useEffects
    /\ Observe("setTypeFilter", "-", FALSE)

\* the Prev button: disabled={page <= 1}, setPage((p) => Math.max(1, p - 1))
PrevPage ==
    /\ ~(page <= 1)
    /\ page' = IF page - 1 > 1 THEN page - 1 ELSE 1
    /\ UNCHANGED <<query, statusFilter, typeFilter, orders, completedOrders,
                   toast, clock, nextId>>
    /\ UNCHANGED <<menu, shopInfo, createModal>>
    /\ useEffects
    /\ Observe("prevPage", "-", FALSE)

\* the Next button: disabled={page >= totalPages},
\* setPage((p) => Math.min(totalPages, p + 1))
NextPage ==
    /\ ~(page >= totalPages)
    /\ page' = IF page + 1 < totalPages THEN page + 1 ELSE totalPages
    /\ UNCHANGED <<query, statusFilter, typeFilter, orders, completedOrders,
                   toast, clock, nextId>>
    /\ UNCHANGED <<menu, shopInfo, createModal>>
    /\ useEffects
    /\ Observe("nextPage", "-", FALSE)

\* time passes
Tick ==
    /\ clock < MaxClock
    /\ clock' = clock + 1
    /\ UNCHANGED <<nextId, orders, completedOrders, viewVars, toast>>
    /\ UNCHANGED <<menu, shopInfo, createModal>>
    /\ useEffects
    /\ Observe("tick", "-", FALSE)

----------------------------------------------------------------------------
(* The create modal and the menu.  createModal is <<>> while showCreate is *)
(* false and <<items>> while CreateOrderModal is mounted.                  *)

\* { ...menu[0], qty: 1 }; with an empty menu menu[0] is undefined and the
\* spread of undefined adds nothing
firstMenuLine(m) ==
    IF m = <<>> THEN [qty |-> 1]
    ELSE [id |-> m[1].id, name |-> m[1].name, price |-> m[1].price, qty |-> 1]

\* the steps of a handler that are common to the create modal and the menu
\* modal: nothing of the order store, the view or the clock changes
ModalFrame(op) ==
    /\ UNCHANGED <<orders, completedOrders, viewVars, toast, clock, nextId,
                   shopInfo>>
    /\ useEffects
    /\ Observe(op, "-", FALSE)

\* onOpenCreate: setShowCreate(true); CreateOrderModal mounts with
\* useState([{ ...menu[0], qty: 1 }])
OpenCreate ==
    /\ createModal = <<>>
    /\ createModal' = << <<firstMenuLine(menu)>> >>
    /\ UNCHANGED menu
    /\ ModalFrame("openCreate")

\* onClose of CreateOrderModal: setShowCreate(false)
CloseCreate ==
    /\ createModal # <<>>
    /\ createModal' = <<>>
    /\ UNCHANGED menu
    /\ ModalFrame("closeCreate")

\* addItem: setItems((s) => [...s, { ...menu[0], qty: 1 }])
addItem ==
    /\ createModal # <<>>
    /\ Len(createModal[1]) < MaxLines
    /\ createModal' = <<Append(createModal[1], firstMenuLine(menu))>>
    /\ UNCHANGED menu
    /\ ModalFrame("addItem")

\* updateItem(idx, patch): s.map((it, i) => (i === idx ? { ...it, ...patch } : it))
updateItem(idx, patch) ==
    /\ createModal # <<>>
    /\ createModal' =
          <<[i \in DOMAIN createModal[1] |->
                IF i = idx THEN merge(createModal[1][i], patch)
                ELSE createModal[1][i]]>>
    /\ UNCHANGED menu
    /\ ModalFrame("updateItem")

\* the select of a line, set to menu item m:
\* updateItem(idx, { id: m.id, name: m.name, price: m.price })
selectItem(idx, m) ==
    updateItem(idx, [id |-> m.id, name |-> m.name, price |-> m.price])

\* the quantity input of a line: updateItem(idx, { qty: Math.max(1, Number(v)) })
setQty(idx, v) == updateItem(idx, [qty |-> IF v < 1 THEN 1 ELSE v])

\* removeItem(idx): setItems((s) => s.filter((_, i) => i !== idx))
removeItem(idx) ==
    /\ createModal # <<>>
    /\ createModal' =
          <<[k \in 1..(Len(createModal[1]) - (IF idx \in DOMAIN createModal[1]
                                               THEN 1 ELSE 0)) |->
                IF k < idx THEN createModal[1][k] ELSE createModal[1][k + 1]]>>
    /\ UNCHANGED menu
    /\ ModalFrame("removeItem")

\* the Create button: submit() with the items of the modal
Create(customer, type, delivery) ==
    /\ createModal # <<>>
    /\ submit(customer, type, createModal[1], delivery)

\* the effect of CreateOrderModal on [menu], run after every change of the
\* menu: setItems((s) => (s.length ? s : [{ ...menu[0], qty: 1 }]))
menuEffect(modal, m) ==
    IF modal # <<>> /\ modal[1] = <<>> THEN << <<firstMenuLine(m)>> >> ELSE modal

\* a plausible bug: orders hold references to the menu items, so that a
\* change of an item shows in the lines of every order and archive record
applyToLines(s, id, patch) ==
    [i \in DOMAIN s |->
        [s[i] EXCEPT !.items =
            [k \in DOMAIN s[i].items |->
                IF "id" \in DOMAIN s[i].items[k] /\ s[i].items[k].id = id
                THEN merge(s[i].items[k], patch) ELSE s[i].items[k]]]]

updateMenuItem_LiveReference(id, patch) ==
    /\ menu' = [i \in DOMAIN menu |->
                    IF menu[i].id = id THEN merge(menu[i], patch) ELSE menu[i]]
    /\ createModal' = menuEffect(createModal, menu')
    /\ orders' = applyToLines(orders, id, patch)
    /\ completedOrders' = applyToLines(completedOrders, id, patch)
    /\ UNCHANGED <<viewVars, toast, clock, nextId, shopInfo>>
    /\ useEffects
    /\ Observe("updateMenuItem", "-", FALSE)

\* addMenuItem(item): setMenu((s) => [{ ...item, id: uid("m") }, ...s]);
\* id is what uid("m") returned
addMenuItem(item, id) ==
    /\ Len(menu) < MaxMenu
    /\ menu' = <<[id |-> id, name |-> item.name, price |-> item.price]>> \o menu
    /\ createModal' = menuEffect(createModal, menu')
    /\ ModalFrame("addMenuItem")

\* updateMenuItem(id, patch):
\* setMenu((s) => s.map((m) => (m.id === id ? { ...m, ...patch } : m)))
updateMenuItem(id, patch) ==
    /\ menu' = [i \in DOMAIN menu |->
                    IF menu[i].id = id THEN merge(menu[i], patch) ELSE menu[i]]
    /\ createModal' = menuEffect(createModal, menu')
    /\ ModalFrame("updateMenuItem")

\* deleteMenuItem(id): setMenu((s) => s.filter((m) => m.id !== id))
deleteMenuItem(id) ==
    /\ menu' = SelectSeq(menu, LAMBDA m : m.id # id)
    /\ createModal' = menuEffect(createModal, menu')
    /\ ModalFrame("deleteMenuItem")

----------------------------------------------------------------------------
(* Inputs.  Every specification below runs the same handlers and differs   *)
(* only in the orders, patches and ids it hands them.                      *)

\* lifecycle: two order ids, three of the five statuses
LifeIds == {"o1", "o2"}
LifeStatuses == {"Pending", "Preparing", "Delivered"}
LifeOrders ==
    {Order(id, "Ana", "Dine-in", <<Line1>>, s, "Unassigned", 0, <<>>) :
        id \in LifeIds, s \in LifeStatuses}
LifePatches == {[status |-> s] : s \in LifeStatuses}

\* lifecycle with every status, for the specifications that observe little
WideOrders ==
    {Order(id, "Ana", "Dine-in", <<Line1>>, s, "Unassigned", 0, <<>>) :
        id \in LifeIds, s \in StatusSet}
WidePatches == {[status |-> s] : s \in StatusSet}

\* editing: one order id, every status, edits of the other fields
EditIds == {"o1"}
EditOrders ==
    {Order("o1", c, "Dine-in", e[2], s, e[1], 0, <<>>) :
        c \in {"Ana", "Bo"}, s \in StatusSet,
        e \in {<<"Unassigned", <<Line1>>>>, <<"T4", <<Line1, Line2>>>>}}
EditPatches ==
    {[status |-> s] : s \in StatusSet}
        \cup {[customer |-> c] : c \in {"Ana", "Bo"}}
        \cup {[assigned |-> a, status |-> s] : a \in {"T4"}, s \in {"Ready", "Delivered"}}

\* the state after construction, the first run of the effects included, with
\* the order list os and the shop profile sh in localStorage
InitLoaded(w, os, sh) ==
    /\ orders = os
    /\ completedOrders = <<>>
    /\ query = ""
    /\ statusFilter = "All"
    /\ typeFilter = "All"
    /\ page = 1
    /\ toast = <<>>
    /\ clock = 0
    /\ nextId = 0
    /\ menu = defaultMenu
    /\ shopInfo = sh
    /\ createModal = <<>>
    /\ storage = Stored(os, <<>>, defaultMenu, sh)
    /\ watch = w
    /\ lastOp = NoOp
    /\ seq = SeqOff
    /\ deliveredOnce = {}

\* the same with no shop profile in localStorage
InitState(w, os) == InitLoaded(w, os, defaultShopInfo)

\* the state after construction with nothing in localStorage
InitWatching(w) == InitState(w, <<>>)

Init == InitWatching({"ops"})
InitSeq == InitWatching({"seq"})
InitOnce == InitWatching({"once"})

NextWide ==
    \/ \E o \in WideOrders : SaveOrder(o)
    \/ \E id \in LifeIds : deleteOrder(id)
    \/ \E id \in LifeIds, p \in WidePatches : onUpdate(id, p)
    \/ \E id \in LifeIds : RemoveCompleted(id)
    \/ \E ok \in BOOLEAN : clearCompleted(ok)
    \/ \E day \in GroupDays, ok \in BOOLEAN : DeleteDay(day, ok)
    \/ ToastTimeout
    \/ Tick

Next ==
    \/ \E o \in LifeOrders : SaveOrder(o)
    \/ \E id \in LifeIds : deleteOrder(id)
    \/ \E id \in LifeIds, p \in LifePatches : onUpdate(id, p)
    \/ \E id \in LifeIds : RemoveCompleted(id)
    \/ \E ok \in BOOLEAN : clearCompleted(ok)
    \/ \E day \in GroupDays, ok \in BOOLEAN : DeleteDay(day, ok)
    \/ ToastTimeout
    \/ Tick

\* lifecycle, observing the handlers
Spec == Init /\ [][Next]_vars
\* lifecycle, observing the status sequence of TrackedId
SpecSeq == InitSeq /\ [][NextWide]_vars
\* lifecycle, observing which orders have moved into Delivered
SpecOnce == InitOnce /\ [][NextWide]_vars

NextEdit ==
    \/ \E o \in EditOrders : SaveOrder(o)
    \/ \E id \in EditIds : deleteOrder(id)
    \/ \E id \in EditIds, p \in EditPatches : onUpdate(id, p)
    \/ \E id \in EditIds : RemoveCompleted(id)
    \/ \E ok \in BOOLEAN : clearCompleted(ok)
    \/ \E day \in GroupDays, ok \in BOOLEAN : DeleteDay(day, ok)
    \/ ToastTimeout
    \/ Tick

SpecEdit == Init /\ [][NextEdit]_vars

\* paging: up to MaxCreated orders made by the create form, one at a time
PageDeleteIds == {"o1"} \cup IdsOf(orders)

InitPage == InitWatching({"page"})

NextPaging ==
    \/ submit("Ana", "Dine-in", <<Line1>>, BlankDelivery)
    \/ \E id \in PageDeleteIds : deleteOrder(id)
    \/ \E s \in {"Pending", "Canceled"} : onUpdate("o1", [status |-> s])
    \/ \E v \in {"", "o1"} : setQuery(v)
    \/ \E v \in {"All", "Canceled"} : setStatusFilter(v)
    \/ \E v \in {"All", "Delivery"} : setTypeFilter(v)
    \/ PrevPage
    \/ NextPage
    \/ ToastTimeout

SpecPage == InitPage /\ [][NextPaging]_vars

\* the archive: three orders found in localStorage, delivered and taken back
ArchiveIds == {"o1", "o2", "o3"}
ArchiveOrders ==
    <<Order("o1", "Ana", "Dine-in", <<Line1>>, "Pending", "Unassigned", 0, <<>>),
      Order("o2", "Bo", "Dine-in", <<Line1, Line2>>, "Pending", "Unassigned", 0, <<>>),
      Order("o3", "Dan B", "Dine-in", <<Line2>>, "Pending", "Unassigned", 0, <<>>)>>

InitArchive == InitState({"page"}, ArchiveOrders)

NextArchive ==
    \/ \E id \in ArchiveIds, s \in {"Pending", "Delivered"} :
            onUpdate(id, [status |-> s])
    \/ \E id \in ArchiveIds : RemoveCompleted(id)
    \/ \E ok \in BOOLEAN : clearCompleted(ok)
    \/ \E day \in GroupDays, ok \in BOOLEAN : DeleteDay(day, ok)
    \/ Tick

SpecArchive == InitArchive /\ [][NextArchive]_vars

\* start-up: what the four keys of localStorage may hold when the page loads
LoadOrders ==
    <<Order("o1", "Ana", "Dine-in", <<Line1>>, "Pending", "Unassigned", 0, <<>>)>>
LoadCompleted ==
    <<CompletionRecord(
        Order("o2", "Bo", "Dine-in", <<Line2>>, "Delivered", "T4", 0, <<>>), 0)>>
LoadMenu ==
    <<[id |-> "m2", name |-> "Soup", price |-> 5],
      [id |-> "m1", name |-> "chicken tikka ", price |-> 250]>>
LoadShop ==
    [name |-> "Bo", address |-> "Dan B", phone |-> "AN", taxNumber |-> "",
     logo |-> <<>>]
ShopDrafts == {LoadShop, [LoadShop EXCEPT !.name = ""]}

\* a key has no entry, holds the empty string, a text that does not parse,
\* or the text written for value
RawChoices(value) ==
    {<<>>, <<[kind |-> "empty", val |-> <<>>]>>,
     <<[kind |-> "corrupt", val |-> <<>>]>>, <<JSONstringify(value)>>}

\* the state after construction, before the first run of the effects
InitLoad ==
    \E ro \in RawChoices(LoadOrders), rc \in RawChoices(LoadCompleted),
       rm \in RawChoices(LoadMenu), rs \in RawChoices(LoadShop) :
        /\ storage = [orders |-> ro, completed |-> rc, menu |-> rm, shop |-> rs]
        /\ menu = initialiser(rm, defaultMenu)
        /\ shopInfo = initialiser(rs, defaultShopInfo)
        /\ orders = initialiser(ro, <<>>)
        /\ completedOrders = initialiser(rc, <<>>)
        /\ query = ""
        /\ statusFilter = "All"
        /\ typeFilter = "All"
        /\ page = 1
        /\ toast = <<>>
        /\ clock = 0
        /\ nextId = 0
        /\ createModal = <<>>
        /\ watch = {}
        /\ lastOp = NoOp
        /\ seq = SeqOff
        /\ deliveredOnce = {}

\* the effects have run: handlers run after the first render and its effects
Mounted == storage = Stored(orders, completedOrders, menu, shopInfo)

NextLoad ==
    \/ Mount
    \/ Mounted /\ \E s \in {"Pending", "Delivered"} : onUpdate("o1", [status |-> s])
    \/ Mounted /\ \E id \in {"o1", "o2"} : RemoveCompleted(id)
    \/ Mounted /\ \E sh \in ShopDrafts : ShopModalSave(sh)

SpecLoad == InitLoad /\ [][NextLoad]_vars

\* export: three orders found in localStorage, the texts a user typed into
\* one of them, and the shop profile
CsvTexts ==
    {"x", ",", "\"", "\n", "xx", "x,", "x\"", "x\n", ",x", ",,", ",\"",
     ",\n", "\"x", "\",", "\"\"", "\"\n", "\nx", "\n,", "\n\"", "\n\n",
     "xxx", "xx,", "xx\"", "xx\n", "x,x", "x,,", "x,\"", "x,\n", "x\"x",
     "x\",", "x\"\"", "x\"\n", "x\nx", "x\n,", "x\n\"", "x\n\n", ",xx",
     ",x,", ",x\"", ",x\n", ",,x", ",,,", ",,\"", ",,\n", ",\"x", ",\",",
     ",\"\"", ",\"\n", ",\nx", ",\n,", ",\n\"", ",\n\n", "\"xx", "\"x,",
     "\"x\"", "\"x\n", "\",x", "\",,", "\",\"", "\",\n", "\"\"x", "\"\",",
     "\"\"\"", "\"\"\n", "\"\nx", "\"\n,", "\"\n\"", "\"\n\n", "\nxx",
     "\nx,", "\nx\"", "\nx\n", "\n,x", "\n,,", "\n,\"", "\n,\n", "\n\"x",
     "\n\",", "\n\"\"", "\n\"\n", "\n\nx", "\n\n,", "\n\n\"", "\n\n\n"}
HtmlTexts ==
    {"x", "&", "<", ">", "\"", "'", "xx", "x&", "x<", "x>", "x\"", "x'",
     "&x", "&&", "&<", "&>", "&\"", "&'", "<x", "<&", "<<", "<>", "<\"",
     "<'", ">x", ">&", "><", ">>", ">\"", ">'", "\"x", "\"&", "\"<", "\">",
     "\"\"", "\"'", "'x", "'&", "'<", "'>", "'\"", "''"}
ExportTexts == {"", "Ana", "&lt;"} \cup CsvTexts \cup HtmlTexts

ExportOrders(c) ==
    <<Order("o1", c, "Delivery",
            <<Line1, [id |-> "m3", name |-> c, price |-> 5, qty |-> 3]>>,
            "Pending", "T4", 0,
            <<[name |-> "", phone |-> "AN", address |-> c, note |-> "x,\""]>>),
      Order("o2", "Bo", "Dine-in", <<Line2>>, "Ready", "Unassigned", 1, <<>>),
      Order("o3", "Guest", "Takeaway", <<>>, "Pending", "Unassigned", 1, <<>>)>>

ExportShops ==
    {[name |-> "x&", address |-> "<x", phone |-> "'", taxNumber |-> "",
      logo |-> <<l>>] : l \in {"", "xx", "x\""}}

InitExport ==
    \/ \E c \in ExportTexts : InitLoaded({"ops"}, ExportOrders(c), defaultShopInfo)
    \/ \E sh \in ExportShops : InitLoaded({"ops"}, ExportOrders("Ana"), sh)

NextExport ==
    \/ downloadCSV
    \/ \E i \in DOMAIN orders, opened \in BOOLEAN : printOrder(orders[i], opened)
    \/ \E s \in {"Ready", "Delivered"} : onUpdate("o2", [status |-> s])
    \/ deleteOrder("o2")

SpecExport == InitExport /\ [][NextExport]_vars

\* the create modal: lines added, removed and given a quantity
InitForm == InitWatching({"page"})

NextForm ==
    \/ OpenCreate
    \/ CloseCreate
    \/ addItem
    \/ /\ createModal # <<>>
       /\ \E idx \in DOMAIN createModal[1] : removeItem(idx)
    \/ /\ createModal # <<>>
       /\ \E idx \in DOMAIN createModal[1], v \in {0, 2} : setQty(idx, v)
    \/ /\ nextId < MaxForms
       /\ Create("", "Dine-in", BlankDelivery)

SpecForm == InitForm /\ [][NextForm]_vars

\* the menu modal: what MenuModal.submit hands to addMenuItem and
\* updateMenuItem, the ids uid("m") returns, and orders of at most one line
\* made while the menu changes
MenuAdds == {[name |-> "Soup", price |-> 5]}
MenuEdits == {[name |-> "chicken tikka ", price |-> 300]}
MenuIds == {"m2"}

InitMenu == InitWatching({"page"})

NextMenu ==
    \/ OpenCreate
    \/ /\ createModal # <<>>
       /\ \E idx \in DOMAIN createModal[1], i \in DOMAIN menu :
                selectItem(idx, menu[i])
    \/ /\ createModal # <<>>
       /\ \E idx \in DOMAIN createModal[1] : removeItem(idx)
    \/ /\ nextId < MaxForms
       /\ Create("", "Dine-in", BlankDelivery)
    \/ \E item \in MenuAdds, id \in MenuIds : addMenuItem(item, id)
    \/ \E patch \in MenuEdits : updateMenuItem("m1", patch)
    \/ \E i \in DOMAIN menu : deleteMenuItem(menu[i].id)
    \/ \E id \in IdsOf(orders) : onUpdate(id, [status |-> "Delivered"])

SpecMenu == InitMenu /\ [][NextMenu]_vars

\* ids: three ids, any of which uid() may return for a new order, also one
\* that is live; saves of the orders so made, patches and a deletion; no
\* archive deletion
IdPool == {"o1", "o2", "o3"}
IdOrders ==
    {Order(id, "Guest", "Dine-in", <<Line1>>, s, "Unassigned", 0, <<>>) :
        id \in IdPool, s \in {"Preparing", "Delivered"}}

InitIds == InitWatching({})

NextIds ==
    \/ /\ nextId < MaxForms
       /\ \E id \in IdPool :
            submitWithUid(id, "", "Dine-in", <<Line1>>, BlankDelivery)
    \/ \E o \in IdOrders : SaveOrder(o)
    \/ \E id \in IdPool : onUpdate(id, [status |-> "Delivered"])
    \/ deleteOrder("o1")

SpecIds == InitIds /\ [][NextIds]_vars

\* delivery: orders made by the create form and edited in the order modal
FormDeliveries ==
    {BlankDelivery, [name |-> "Bo", phone |-> "AN", address |-> "Dan B", note |-> ""]}
ModalEdits ==
    {[status |-> s, assigned |-> a, name |-> n] :
        s \in {"Pending", "Delivered"}, a \in {"Unassigned"}, n \in {<<>>, <<"Dan B">>}}

InitDelivery == InitWatching({})

NextDelivery ==
    \/ /\ nextId < MaxForms
       /\ \E customer \in {""}, type \in {"Dine-in", "Takeaway", "Delivery"},
             delivery \in FormDeliveries :
                submit(customer, type, <<Line1>>, delivery)
    \/ \E i \in DOMAIN orders, e \in ModalEdits : OrderModalSave(orders[i], e)
    \/ \E id \in IdsOf(orders), s \in {"Pending", "Delivered"} :
            onUpdate(id, [status |-> s])

SpecDelivery == InitDelivery /\ [][NextDelivery]_vars

\* filtering: the order lists of up to three orders found in localStorage
FilterIds == {"o1", "o2", "o3"}
FilterTimes == {0, 1}
FilterCustomer(id) == CASE id = "o1" -> "Ana" [] id = "o2" -> "Bo" [] OTHER -> "Dan B"
FilterItems(id) ==
    CASE id = "o1" -> <<Line1>> [] id = "o2" -> <<Line1, Line2>> [] OTHER -> <<Line2>>
FilterOrders ==
    {Order(id, FilterCustomer(id), type, FilterItems(id), s, "Unassigned", t,
           IF type = "Delivery" THEN <<BlankDelivery>> ELSE <<>>) :
        id \in FilterIds, type \in {"Dine-in", "Delivery"},
        s \in {"Pending", "Ready"}, t \in FilterTimes}
FilterLists ==
    {os \in UNION {[1..n -> FilterOrders] : n \in 0..Cardinality(FilterIds)} :
        \A i, j \in DOMAIN os : os[i].id = os[j].id => i = j}
FilterQueries == {"", " ", "AN", " b", "o1", "soup"}

InitFilter == \E os \in FilterLists : InitState({}, os)

NextFilter ==
    \/ \E v \in FilterQueries : setQuery(v)
    \/ \E v \in {"All", "Ready"} : setStatusFilter(v)
    \/ \E v \in {"All", "Delivery"} : setTypeFilter(v)
    \/ \E s \in {"Pending", "Ready"} : onUpdate("o1", [status |-> s])

SpecFilter == InitFilter /\ [][NextFilter]_vars

----------------------------------------------------------------------------
(* Properties *)

StoreOps == {"upsertOrder", "onUpdate"}
ArchiveRemovals == {"removeCompleted", "removeCompletedDay", "clearCompleted"}
RecordOf(id) == completedOrders[findIndex(completedOrders, id)]

\* C1: once TrackedId, starting Pending with no archive record, has gone
\* through Pending -> Preparing -> Delivered (-> Pending -> Delivered), by
\* upsertOrder or onUpdate in any mix, the archive holds exactly one record
\* for it, and that record was made at the first move into Delivered.
C1_OneRecordAfterSequence ==
    seq.n >= 3 =>
        /\ CountId(completedOrders, TrackedId) = 1
        /\ RecordOf(TrackedId).completedAt = seq.at
        /\ RecordOf(TrackedId).status = "Delivered"

\* the whole sequence was applied, and time passed between the two moves
\* into Delivered
C1_Witness == seq.n = 5 /\ clock > seq.at

\* C2: no two archive records share an order id, and a step that calls
\* addCompleted for an id that has a record leaves the archive as it was.
C2_NoDuplicateIds == \A id \in IdsOf(completedOrders) : CountId(completedOrders, id) = 1

C2_ExistingKept ==
    (lastOp'.op \in StoreOps /\ lastOp'.called /\ lastOp'.had)
        => completedOrders' = completedOrders

C2_ArchiveIdempotent == []C2_NoDuplicateIds /\ [][C2_ExistingKept]_vars

\* addCompleted was called for an id that already had a record, later than
\* the record was made
C2_Witness ==
    /\ lastOp.op \in StoreOps /\ lastOp.called /\ lastOp.had
    /\ someId(completedOrders, lastOp.id)
    /\ RecordOf(lastOp.id).completedAt < clock

\* the archive gains a record for id in this step
Gains(id) == CountId(completedOrders', id) > CountId(completedOrders, id)

\* the live order id moves into Delivered in this step (an insert with status
\* Delivered included)
IntoDelivered(id) ==
    StatusOf(orders, id) # "Delivered" /\ StatusOf(orders', id) = "Delivered"

\* C3 as claimed: the archive gains a record for an id only on the first move
\* of that live order into Delivered, never on a later one.
C3_OnlyFirstTransition ==
    [][\A id \in LifeIds :
        Gains(id) => IntoDelivered(id) /\ id \notin deliveredOnce]_vars

\* C3 as amended: the archive gains a record for an id only on a move of that
\* order into Delivered made while the archive holds no record for the id,
\* and then exactly one.
C3_OnlyWhenNoRecord ==
    [][\A id \in LifeIds :
        Gains(id) => /\ IntoDelivered(id)
                     /\ CountId(completedOrders, id) = 0
                     /\ CountId(completedOrders', id) = 1]_vars

\* an order that has moved into Delivered has its record, made after time 0
C3_Witness ==
    \E id \in deliveredOnce :
        /\ someId(completedOrders, id)
        /\ RecordOf(id).completedAt > 0
        /\ StatusOf(orders, id) = "Delivered"

\* C4: an upsert or patch of an order whose id has an archive record leaves
\* the archive exactly as it was.
C4_ArchivedSnapshotKept ==
    [][(lastOp'.op \in StoreOps /\ lastOp'.had)
        => completedOrders' = completedOrders]_vars

\* an archived order was edited: the live order now differs from its record in
\* customer and status, and the step that did it was a re-delivery attempt or
\* any other edit
C4_Witness ==
    /\ lastOp.op \in StoreOps /\ lastOp.had
    /\ someId(orders, lastOp.id) /\ someId(completedOrders, lastOp.id)
    /\ orders[findIndex(orders, lastOp.id)].customer # RecordOf(lastOp.id).customer
    /\ lastOp.prev = "Delivered"
    /\ StatusOf(orders, lastOp.id) # "Delivered"

\* C5: deleteOrder leaves the archive as it was; removeCompleted,
\* removeCompletedDay and clearCompleted leave the live order list as it was.
C5_DeletionsIndependent ==
    [][/\ lastOp'.op = "deleteOrder" => completedOrders' = completedOrders
       /\ lastOp'.op \in ArchiveRemovals => orders' = orders]_vars

\* a live order that has an archive record was deleted and the record is there
C5_Witness ==
    /\ lastOp.op = "deleteOrder"
    /\ lastOp.prev # "absent" /\ lastOp.had
    /\ ~someId(orders, lastOp.id)
    /\ someId(completedOrders, lastOp.id)

\* C6: an upsert or patch calls addCompleted exactly when the id's status was
\* not Delivered before (or the id was absent) and is Delivered after; a call
\* leaves a record for the id, a store step without a call and every other
\* step add nothing to the archive.
C6_Trigger ==
    lastOp.op \in StoreOps =>
        (lastOp.called <=>
            (lastOp.prev # "Delivered" /\ StatusOf(orders, lastOp.id) = "Delivered"))

C6_Effect ==
    /\ (lastOp'.op \in StoreOps /\ lastOp'.called)
            => someId(completedOrders', lastOp'.id)
    /\ ~(lastOp'.op \in StoreOps /\ lastOp'.called)
            => \A id \in IdsOf(completedOrders') : ~Gains(id)

C6_ArchivalTriggerRule == []C6_Trigger /\ [][C6_Effect]_vars

\* a patch moved an order from Ready to Delivered and the archive got its record
C6_Witness ==
    /\ lastOp.op = "onUpdate" /\ lastOp.called /\ ~lastOp.had
    /\ lastOp.prev = "Ready"
    /\ someId(completedOrders, lastOp.id)

\* C7 as claimed: onUpdate or deleteOrder with an id that is not in the live
\* list changes neither list and reports the id as not found.
C7_MissingIdReported ==
    [][(lastOp'.op \in {"onUpdate", "deleteOrder"} /\ lastOp'.prev = "absent")
        => /\ orders' = orders
           /\ completedOrders' = completedOrders
           /\ toast' = <<"not found", lastOp'.id>>]_vars

\* C8 as claimed: totalPages is the least n >= 1 with n * perPage >=
\* filteredCount, the page lies in 1..totalPages, and the page shown is not
\* empty when the filtered result is not.
C8_PageWithinBounds ==
    /\ totalPages >= 1
    /\ totalPages * perPage >= Len(filtered)
    /\ totalPages > 1 => (totalPages - 1) * perPage < Len(filtered)
    /\ 1 <= page /\ page <= totalPages
    /\ Len(filtered) > 0 => Len(pageItems) > 0

FilterOps == {"setQuery", "setStatusFilter", "setTypeFilter"}

\* C9: a step that changes the status filter, the type filter or the query
\* (or runs one of their handlers) ends on page 1.
C9_FilterChangeResetsPage ==
    [][(\/ query' # query
        \/ statusFilter' # statusFilter
        \/ typeFilter' # typeFilter
        \/ lastOp'.op \in FilterOps) => page' = 1]_vars

\* a filter or the query was set while page 2 was shown
C9_Witness == lastOp.op \in FilterOps /\ lastOp.pageWas = 2 /\ page = 1

\* the place of the order id in the live list
LivePlace(id) == findIndex(orders, id)

\* the text test, stated on the order's texts: some stretch of the id, the
\* customer or an item name is the trimmed query, letter case aside
TextsOf(o) ==
    {Chars(o.id), Chars(o.customer)} \cup {Chars(o.items[i].name) : i \in DOMAIN o.items}
SatisfiesQuery(o) ==
    LET q == toLowerCase(trim(Chars(query)))
    IN  \E txt \in TextsOf(o) :
            \E a \in 1..(Len(txt) + 1), b \in 0..Len(txt) :
                toLowerCase(SubSeq(txt, a, b)) = q
Satisfies(o) ==
    /\ statusFilter = "All" \/ o.status = statusFilter
    /\ typeFilter = "All" \/ o.type = typeFilter
    /\ SatisfiesQuery(o)

\* C10: filtered holds exactly the live orders that pass the status filter and
\* the type filter and the query, each once, newest createdAt first, orders of
\* equal createdAt in live-list order; computing it leaves orders as it was.
C10_FilteredView ==
    LET run == filteredRun(orders, query, statusFilter, typeFilter)
        f   == run.filtered
    IN  /\ \A i \in DOMAIN f : someId(orders, f[i].id)
                               /\ f[i] = orders[LivePlace(f[i].id)]
                               /\ Satisfies(f[i])
        /\ \A j \in DOMAIN orders :
                Satisfies(orders[j]) => CountId(f, orders[j].id) = 1
        /\ \A i, j \in DOMAIN f : i < j =>
                \/ f[i].createdAt > f[j].createdAt
                \/ /\ f[i].createdAt = f[j].createdAt
                   /\ LivePlace(f[i].id) < LivePlace(f[j].id)
        /\ run.orders = orders

\* all three filters are on, they keep two of three orders, and the sort
\* moves the kept ones out of their live-list order
C10_Witness ==
    /\ statusFilter # "All" /\ typeFilter # "All" /\ trim(Chars(query)) # <<>>
    /\ Len(orders) = 3 /\ Len(filtered) = 2
    /\ LivePlace(filtered[1].id) > LivePlace(filtered[2].id)

\* the local calendar day (yyyy-MM-dd) of a completion time
LocalDay(t) == t \div TicksPerDay

\* C11: a confirmed Delete day removes, for the day d of some group shown,
\* every archive record whose local day is d and no other record; the grouped
\* view afterwards is the one before without the group of d, the other groups
\* as they were and in the order they were.
C11_RemoveDayRemovesGroup ==
    [][lastOp'.op = "removeCompletedDay" =>
        \E d \in GroupDays :
            /\ completedOrders' =
                    SelectSeq(completedOrders, LAMBDA o : LocalDay(o.completedAt) # d)
            /\ Len(completedOrders') < Len(completedOrders)
            /\ grouped(completedOrders') =
                    SelectSeq(grouped(completedOrders), LAMBDA x : x.day # d)]_vars

\* a day was deleted: all three orders had been delivered, one record of
\* another day is left
C11_Witness ==
    /\ lastOp.op = "removeCompletedDay"
    /\ Len(completedOrders) = 1
    /\ \A id \in ArchiveIds : StatusOf(orders, id) = "Delivered"

\* the sum of the third components of a set of triples
RECURSIVE SumThird(_)
SumThird(S) ==
    IF S = {} THEN 0
    ELSE LET x == CHOOSE y \in S : TRUE IN x[3] + SumThird(S \ {x})

\* qty * price of every line of every record of a group, each line once
GroupLines(items) ==
    UNION {{<<items[j].id, n, items[j].items[n].qty * items[j].items[n].price>> :
                n \in DOMAIN items[j].items} : j \in DOMAIN items}

\* C12: the groups partition the archive (every record is in exactly one
\* group, that of its local day, and a group holds archive records only),
\* the days of the groups strictly descend, the records of a group stand in
\* archive order, newest completion first, and the day total of a group is
\* the sum of qty * price over the lines of its records.
C12_GroupedPartition ==
    LET g == grouped(completedOrders)
        Places(i) == {kj \in (DOMAIN g) \X (DOMAIN completedOrders) :
                        /\ kj[2] \in DOMAIN g[kj[1]].items
                        /\ g[kj[1]].items[kj[2]] = completedOrders[i]}
    IN  /\ \A i \in DOMAIN completedOrders :
                /\ Cardinality(Places(i)) = 1
                /\ \A kj \in Places(i) :
                        g[kj[1]].day = LocalDay(completedOrders[i].completedAt)
        /\ \A k \in DOMAIN g :
                /\ g[k].items # <<>>
                /\ \A j \in DOMAIN g[k].items :
                        /\ someId(completedOrders, g[k].items[j].id)
                        /\ g[k].items[j] = RecordOf(g[k].items[j].id)
                /\ \A j1, j2 \in DOMAIN g[k].items : j1 < j2 =>
                        /\ findIndex(completedOrders, g[k].items[j1].id)
                                < findIndex(completedOrders, g[k].items[j2].id)
                        /\ g[k].items[j1].completedAt >= g[k].items[j2].completedAt
                /\ dayTotal(g[k].items) = SumThird(GroupLines(g[k].items))
        /\ \A k, l \in DOMAIN g : k < l => g[k].day > g[l].day

\* two groups: the newer day with one record, the older day with two records
\* completed at different times
C12_Witness ==
    LET g == grouped(completedOrders)
    IN  /\ Len(g) = 2
        /\ Len(g[1].items) = 1 /\ Len(g[2].items) = 2
        /\ g[2].items[1].completedAt > g[2].items[2].completedAt
        /\ dayTotal(g[2].items) > dayTotal(g[1].items)

BulkRemovals == {"removeCompletedDay", "clearCompleted"}
Declined == {"clearDeclined", "removeDayDeclined"}

\* C13: a Clear all or Delete day whose confirmation is declined leaves the
\* archive as it was; a step that takes records out of the archive is a
\* confirmed Clear all, a confirmed Delete day or the removal of one record.
C13_BulkRemovalConfirmed ==
    [][/\ lastOp'.op \in Declined => completedOrders' = completedOrders
       /\ Len(completedOrders') < Len(completedOrders) =>
            \/ lastOp'.op \in BulkRemovals
            \/ /\ lastOp'.op = "removeCompleted"
               /\ Len(completedOrders') = Len(completedOrders) - 1
       /\ lastOp'.op = "clearCompleted" => completedOrders' = <<>>]_vars

\* a confirmation was declined while the archive held three records of two
\* days
C13_Witness ==
    /\ lastOp.op \in Declined
    /\ Len(completedOrders) = 3
    /\ Cardinality(GroupDays) = 2

\* the key holds nothing that parses: no entry, the empty string or a text
\* JSON.parse throws on
Unreadable(raw) == raw = <<>> \/ raw[1].kind \in {"empty", "corrupt"}

\* a piece of state is the fallback when its key is unreadable and the value
\* whose text the key holds otherwise
LoadedOrFallback(raw, value, fallback) ==
    IF Unreadable(raw) THEN value = fallback ELSE value = raw[1].val[1]

BlankShopInfo ==
    [name |-> "", address |-> "", phone |-> "", taxNumber |-> "", logo |-> <<>>]
PlaceholderShopInfo ==
    [name |-> "My Restaurant", address |-> "", phone |-> "", taxNumber |-> "",
     logo |-> <<>>]

\* C14 as claimed: with an unreadable key the state starts as the empty order
\* list, the empty archive, the seeded menu and a blank shop profile, and a
\* readable key is loaded whatever the other keys hold.
C14_BlankShopDefault ==
    /\ LoadedOrFallback(storage.orders, orders, <<>>)
    /\ LoadedOrFallback(storage.completed, completedOrders, <<>>)
    /\ LoadedOrFallback(storage.menu, menu, defaultMenu)
    /\ LoadedOrFallback(storage.shop, shopInfo, BlankShopInfo)

\* C14 as amended: the same, the shop profile starting with the name
\* "My Restaurant" and its address, phone and tax number blank.
C14_LoadFallsBack ==
    /\ LoadedOrFallback(storage.orders, orders, <<>>)
    /\ LoadedOrFallback(storage.completed, completedOrders, <<>>)
    /\ LoadedOrFallback(storage.menu, menu, defaultMenu)
    /\ LoadedOrFallback(storage.shop, shopInfo, PlaceholderShopInfo)

\* a start with the orders key corrupt, the archive key absent, the shop key
\* empty and the menu key readable: the menu is the stored one
C14_Witness ==
    /\ storage.orders # <<>> /\ storage.orders[1].kind = "corrupt"
    /\ storage.completed = <<>>
    /\ storage.shop # <<>> /\ storage.shop[1].kind = "empty"
    /\ storage.menu = <<JSONstringify(LoadMenu)>>
    /\ menu = LoadMenu /\ orders = <<>> /\ completedOrders = <<>>
    /\ shopInfo.name = "My Restaurant"

\* the text under a key reads back as value
ReadsBack(raw, value) ==
    /\ raw # <<>>
    /\ ~JSONparse(raw[1]).threw
    /\ JSONparse(raw[1]).value[1] = value

C15_KeysHoldLists ==
    /\ ReadsBack(storage.orders, orders)
    /\ ReadsBack(storage.completed, completedOrders)

C15_WrittenApart ==
    /\ orders' # orders => ReadsBack(storage'.orders, orders')
    /\ completedOrders' # completedOrders
            => ReadsBack(storage'.completed, completedOrders')
    /\ orders' = orders => storage'.orders = storage.orders
    /\ completedOrders' = completedOrders
            => storage'.completed = storage.completed

\* C15: after every step, an upsert, patch or delete among them, the text
\* under the orders key reads back as the live list and the text under the
\* completed-orders key as the archive; a step that changes one of the two
\* lists writes its key, and a step that leaves a list as it was leaves the
\* text under its key as it was, whatever it writes under the other.
C15_SavedAfterChange == []C15_KeysHoldLists /\ [][C15_WrittenApart]_vars

\* both lists have been changed, an order was delivered by a patch or a save,
\* and the two keys hold the two lists, which differ
C15_Witness ==
    /\ Len(orders) = 2 /\ Len(completedOrders) = 2
    /\ deliveredOnce # {}
    /\ clock > 0
    /\ ReadsBack(storage.orders, orders)
    /\ ReadsBack(storage.completed, completedOrders)
    /\ storage.orders # storage.completed

\* the number a text of digits stands for
RECURSIVE ParseNumber(_)
ParseNumber(text) ==
    IF text = <<>> THEN 0
    ELSE 10 * ParseNumber(SubSeq(text, 1, Len(text) - 1))
            + (CHOOSE v \in 0..9 : Digits(v) = <<text[Len(text)]>>)

\* hundredths of the number a text with two decimals stands for
ParseFixed2(text) ==
    LET n == Len(text)
    IN  IF n >= 4 /\ text[n - 2] = "."
        THEN 100 * ParseNumber(SubSeq(text, 1, n - 3))
                + ParseNumber(SubSeq(text, n - 1, n))
        ELSE -1

\* the sum over the lines of an order of qty * price, each line once
LineSum(o) ==
    SumThird({<<o.id, n, o.items[n].qty * o.items[n].price>> : n \in DOMAIN o.items})

CsvStart == [mode |-> "start", field |-> <<>>, row |-> <<>>, rows |-> <<>>]

CsvStep(st, ch) ==
    IF st.mode = "quoted"
    THEN IF ch = DQ THEN [st EXCEPT !.mode = "quoteSeen"]
         ELSE [st EXCEPT !.field = Append(@, ch)]
    ELSE IF st.mode = "quoteSeen" /\ ch = DQ
    THEN [st EXCEPT !.mode = "quoted", !.field = Append(@, DQ)]
    ELSE IF st.mode = "start" /\ ch = DQ
    THEN [st EXCEPT !.mode = "quoted"]
    ELSE IF ch = ","
    THEN [st EXCEPT !.mode = "start", !.field = <<>>,
                    !.row = Append(@, st.field)]
    ELSE IF ch = NL
    THEN [mode |-> "start", field |-> <<>>, row |-> <<>>,
          rows |-> Append(st.rows, Append(st.row, st.field))]
    ELSE [st EXCEPT !.mode = "bare", !.field = Append(@, ch)]

\* the reader run from the state st over text[lo..hi]; the text is halved
\* and the state after the first half looked at before the second half is
\* read, so that the nesting stays shallow
RECURSIVE CsvRun(_, _, _, _)
CsvRun(st, text, lo, hi) ==
    IF lo > hi THEN st
    ELSE IF lo = hi THEN CsvStep(st, text[lo])
    ELSE LET mid  == (lo + hi) \div 2
             left == CsvRun(st, text, lo, mid)
         IN  IF left.mode = "" THEN left ELSE CsvRun(left, text, mid + 1, hi)

\* the records of a text: the end of the text ends the last record
ParseCsv(text) ==
    LET st == CsvRun(CsvStart, text, 1, Len(text))
    IN  Append(st.rows, Append(st.row, st.field))

HeaderTexts == [j \in DOMAIN headers |-> Chars(headers[j])]

\* C17: the file read back has the header and one record per live order, in
\* live-list order, each of twelve fields and starting with the order's id;
\* an id that is in the archive only is in no record; making the file leaves
\* the live list and the archive as they were.
C17_RowsOfLiveOrders ==
    LET run  == downloadCSVRun(orders)
        file == ParseCsv(run.csv)
    IN  /\ Len(file) = Len(orders) + 1
        /\ file[1] = HeaderTexts
        /\ \A i \in DOMAIN orders :
                /\ Len(file[i + 1]) = Len(headers)
                /\ Len(headers) = 12
                /\ file[i + 1][1] = Chars(orders[i].id)
        /\ \A id \in IdsOf(completedOrders) \ IdsOf(orders) :
                \A i \in 2..Len(file) : file[i][1] # Chars(id)
        /\ run.orders = orders

C17_ExportChangesNothing ==
    lastOp'.op = "downloadCSV" =>
        orders' = orders /\ completedOrders' = completedOrders

C17_CsvRows == []C17_RowsOfLiveOrders /\ [][C17_ExportChangesNothing]_vars

\* the file was made while o2 was in the archive and no longer in the live list
C17_Witness ==
    /\ lastOp.op = "downloadCSV"
    /\ someId(completedOrders, "o2") /\ ~someId(orders, "o2")
    /\ Len(orders) = 2

\* C18: every cell of the file, whatever commas, quotes and newlines its text
\* holds, is read back by a CSV reader as the text it was made of, and every
\* record is read back with the fields it was made of, no more and no fewer.
C18_QuotingRoundTrips ==
    ParseCsv(downloadCSVRun(orders).csv)
        = <<HeaderTexts>> \o [i \in DOMAIN orders |-> csvRow(orders[i])]

\* the file was made of an order whose customer and address are a quote, a
\* comma and a newline
C18_Witness ==
    /\ lastOp.op = "downloadCSV"
    /\ someId(orders, "o1")
    /\ orders[findIndex(orders, "o1")].customer = "\",\n"
    /\ csvRow(orders[findIndex(orders, "o1")])[11] = <<DQ, ",", NL>>

\* the five entities escapeHtml writes
Entities ==
    {<<"&", "a", "m", "p", ";">>, <<"&", "l", "t", ";">>, <<"&", "g", "t", ";">>,
     <<"&", "q", "u", "o", "t", ";">>, <<"&", "#", "0", "3", "9", ";">>}

\* a text that can stand in the document: none of < > " ' in it, and & only
\* where one of the entities starts
Harmless(text) ==
    \A i \in DOMAIN text :
        /\ text[i] \notin {"<", ">", DQ, "'"}
        /\ text[i] = "&" =>
                \E e \in Entities : SubSeq(text, i, i + Len(e) - 1) = e

\* the text at a place of the document is the escaped value, and harmless
Escaped(written, value) == written = escapeHtml(Chars(value)) /\ Harmless(written)

\* C19 as claimed: in the receipt of every live order, the order id, type and
\* payment type, the customer, the delivery name, phone and address, the item
\* names and the shop's address, phone, name and logo are written as
\* escapeHtml made them, and what escapeHtml makes is harmless.
C19_ReceiptValuesEscaped ==
    \A i \in DOMAIN orders :
        LET o == orders[i]
            r == receipt(o, shopInfo)
        IN  /\ Escaped(r.id, o.id)
            /\ Escaped(r.type, o.type)
            /\ Escaped(r.paymentType, "CASH")
            /\ Harmless(r.customer)
            /\ o.delivery = <<>> => Escaped(r.customer, o.customer)
            /\ r.address # <<>> => Escaped(r.address[1], o.delivery[1].address)
            /\ \A n \in DOMAIN r.lines : Escaped(r.lines[n].name, o.items[n].name)
            /\ Escaped(r.shopAddress, shopInfo.address)
            /\ Escaped(r.shopPhone, shopInfo.phone)
            /\ Escaped(r.cashier, shopInfo.name)
            /\ r.logo # <<>> => Escaped(r.logo[1], shopInfo.logo[1])

\* C20: every live order and every archive record has a delivery exactly
\* when its type is Delivery.
C20_DeliveryIffTypeDelivery ==
    \A o \in {orders[i] : i \in DOMAIN orders}
            \cup {completedOrders[i] : i \in DOMAIN completedOrders} :
        o.delivery # <<>> <=> o.type = "Delivery"

\* a Delivery order and a Takeaway order were created, the recipient of the
\* first was changed in the order modal, and both were delivered
C20_Witness ==
    /\ \E i \in DOMAIN completedOrders :
            /\ completedOrders[i].type = "Delivery"
            /\ completedOrders[i].delivery # <<>>
            /\ completedOrders[i].delivery[1].name = "Dan B"
            /\ completedOrders[i].customer = "Bo"
    /\ \E i \in DOMAIN completedOrders :
            completedOrders[i].type = "Takeaway" /\ completedOrders[i].delivery = <<>>
    /\ \E i \in DOMAIN orders : orders[i].type = "Delivery"

----------------------------------------------------------------------------
(* C21: every live order has at least one line: no sequence of add-item,  *)
(* remove-item and Create steps of the create modal puts an order with no *)
(* lines into the live list.                                              *)
C21_ItemsNonEmpty ==
    \A i \in DOMAIN orders : orders[i].items # <<>>

----------------------------------------------------------------------------
(* C22: orders hold copies of menu data: a step of addMenuItem,           *)
(* updateMenuItem or deleteMenuItem leaves every live order and every     *)
(* archive record as it was, so the names, prices and totals of the       *)
(* orders made before the change are the same after it.                   *)
MenuOps == {"addMenuItem", "updateMenuItem", "deleteMenuItem"}

C22_MenuChangeKeepsOrders ==
    [][lastOp'.op \in MenuOps =>
          /\ orders' = orders
          /\ completedOrders' = completedOrders]_vars

\* the price of menu item m1 was changed after a live order and an archive
\* record took a line of it, and both still show the price they were made at
C22_Witness ==
    /\ lastOp.op = "updateMenuItem"
    /\ \E i \in DOMAIN menu : menu[i].id = "m1" /\ menu[i].price = 300
    /\ \E i \in DOMAIN orders : orders[i].items = <<Line1>>
    /\ \E i \in DOMAIN completedOrders : completedOrders[i].items = <<Line1>>

----------------------------------------------------------------------------
(* C23: upsertOrder with an id that is not live puts the order at the     *)
(* head of the list, which grows by one while the other orders keep their *)
(* values and their relative order; with a live id it replaces that order *)
(* by the given one at its position, the length and every other order     *)
(* staying as they were.                                                  *)
Placed(o) ==
    IF ~someId(orders, o.id)
    THEN /\ Len(orders') = Len(orders) + 1
         /\ orders'[1] = o
         /\ \A i \in DOMAIN orders : orders'[i + 1] = orders[i]
    ELSE /\ Len(orders') = Len(orders)
         /\ \A i \in DOMAIN orders :
                orders'[i] = IF orders[i].id = o.id THEN o ELSE orders[i]

C23_UpsertPlacesOrder ==
    [][/\ \A o \in IdOrders : SaveOrder(o) => Placed(o)
       /\ \A id \in IdPool :
            submitWithUid(id, "", "Dine-in", <<Line1>>, BlankDelivery)
                => Placed(newOrder(id, "", "Dine-in", <<Line1>>,
                                   BlankDelivery, clock))]_vars

\* the order saved last was live between two others and is still there
C23_Witness ==
    /\ Len(orders) = 3
    /\ toast = <<"saved", orders[2].id>>
    /\ orders[2].status = "Preparing"

----------------------------------------------------------------------------
(* C24: from an empty live list, whatever upsertOrder, onUpdate and       *)
(* deleteOrder steps are taken, creations that reuse a live id included,  *)
(* no two live orders have the same id.                                   *)
C24_UniqueLiveIds ==
    \A i, j \in DOMAIN orders : i # j => orders[i].id # orders[j].id

\* o2, which is never deleted, was archived while live and is Pending now:
\* a creation was given its id while it was live
C24_Witness ==
    /\ toast = <<"saved", "o2">>
    /\ StatusOf(orders, "o2") = "Pending"
    /\ someId(completedOrders, "o2")
    /\ Len(orders) >= 2

----------------------------------------------------------------------------
(* C25: from an empty store and an empty archive, as long as no archive   *)
(* record is deleted, every live order with status Delivered has an       *)
(* archive record of its id, and every archive record has status          *)
(* Delivered.                                                             *)
C25_DeliveredArchived ==
    /\ \A i \in DOMAIN orders :
            orders[i].status = "Delivered" => someId(completedOrders, orders[i].id)
    /\ \A i \in DOMAIN completedOrders : completedOrders[i].status = "Delivered"

\* one live order is Delivered and archived, another has left Delivered and
\* kept its record
C25_Witness ==
    \E i, j \in DOMAIN orders :
        /\ orders[i].status = "Delivered"
        /\ someId(completedOrders, orders[i].id)
        /\ orders[j].status = "Preparing"
        /\ someId(completedOrders, orders[j].id)

====
